---- MODULE Spec2Model ----
(***************************************************************************)
(* A model of subfinder/subsearcher.py: the process-wide registry of       *)
(* subtitle searchers, the shooter.cn video fingerprint, and the           *)
(* search_subs call of ShooterSubSearcher (validation, fingerprint, one    *)
(* POST per language, normalisation of the responses).                     *)
(*                                                                         *)
(* Four specifications share the module:                                   *)
(*   Spec         one search_subs call, stepped at its network requests    *)
(*   SpecHash     _compute_video_hash applied to files of many sizes       *)
(*   SpecGuard    search_subs, up to its first request, on those files     *)
(*   SpecRegistry register_subsearcher / register / get_subsearcher calls  *)
(***************************************************************************)
EXTENDS Integers, Sequences, FiniteSets, TLC

VARIABLES
    \* ---- one search_subs call (Spec) ----
    pc,          \* "idle" | "query" | "returned" | "raised"
    args,        \* the arguments as the caller passed them
    languages,   \* local `languages` after lines 115-118
    exts,        \* local `exts` after lines 121-124
    payload,     \* the dict built at line 129 (with the identity of the object)
    nextObj,     \* number of payload dicts allocated so far
    requests,    \* log of session.post calls: the data each one carried
    result,      \* the dict `result`, in insertion order
    idx,         \* number of completed iterations of the language loop
    raised,      \* the exception that left search_subs, or NoException
    ret,         \* the returned list, or None
    fileOpened,  \* whether open(videofile, 'rb') was executed
    hashed,      \* the chunks given to hashlib.md5, in order
    budget,      \* file entries the remote service may still send in this call
    failedAt,    \* history: index of the request that failed, 0 if none
    \* ---- fingerprint of one file (SpecHash) ----
    hSize,       \* size of the file, or NoFile
    hOut,        \* outcome of _compute_video_hash, or None
    \* ---- registry (SpecRegistry) ----
    registered_subsearchers,  \* the module-level dict
    regLog,      \* history: every register_subsearcher call and whether it returned
    regOut       \* outcome of the last registry call

searchVars == <<pc, args, languages, exts, payload, nextObj, requests, result,
                idx, raised, ret, fileOpened, hashed, budget, failedAt>>
hashVars == <<hSize, hOut>>
regVars == <<registered_subsearchers, regLog, regOut>>
vars == <<searchVars, hashVars, regVars>>

(***************************************************************************)
(* Bounds of the model.                                                    *)
(***************************************************************************)
\* longest list of languages a caller passes
MaxLangs == 2
\* file entries in all the responses of one call, together
MaxEntries == 2
\* sizes below and above the 12288-byte limit explored by SpecHash
SizeSpan == 60
\* register_subsearcher calls made after the module is loaded
MaxRegs == 2

None == [kind |-> "none"]
NoException == "NoException"
NoFile == 0 - 1

Range(s) == {s[i] : i \in 1..Len(s)}
Min(a, b) == IF a < b THEN a ELSE b

RECURSIVE SeqsUpTo(_, _)
\* all sequences over S of length at most n
SeqsUpTo(S, n) ==
    IF n = 0 THEN {<<>>}
    ELSE LET shorter == SeqsUpTo(S, n - 1)
         IN  shorter \cup {Append(s, x) : s \in {t \in shorter : Len(t) = n - 1}, x \in S}

(***************************************************************************)
(* Python values: a str is told from a list (isinstance(x, str)).          *)
(***************************************************************************)
Str(s) == [kind |-> "str", val |-> s]
List(s) == [kind |-> "list", val |-> s]

(***************************************************************************)
(* Paths.  A path is absolute or relative, a list of directories and a     *)
(* file name; a file name is a stem and a suffix, so that os.path.splitext *)
(* is computed and not assumed.                                            *)
(***************************************************************************)
Cwd == <<"home">>

\* os.path.abspath
abspath(p) == IF p.abs THEN p ELSE [p EXCEPT !.abs = TRUE, !.dir = Cwd \o p.dir]

\* os.path.split: (root, basename)
split(p) == <<[abs |-> p.abs, dir |-> p.dir], p.file>>

\* os.path.splitext: (name, extension)
splitext(basename) == <<basename.stem, basename.suffix>>

VideoA == [abs |-> TRUE, dir |-> <<"v">>, file |-> [stem |-> "a", suffix |-> ".mkv"]]
VideoB == [abs |-> FALSE, dir |-> <<>>, file |-> [stem |-> "b", suffix |-> ".avi"]]
VideoTiny == [abs |-> TRUE, dir |-> <<"v">>, file |-> [stem |-> "tiny", suffix |-> ".mp4"]]
VideoEmpty == [abs |-> FALSE, dir |-> <<"d">>, file |-> [stem |-> "empty", suffix |-> ".mp4"]]
VideoProbe == [abs |-> TRUE, dir |-> <<"v">>, file |-> [stem |-> "probe", suffix |-> ".mkv"]]

Videos == {VideoA, VideoB, VideoTiny, VideoEmpty, VideoProbe}

\* the file system the call reads: the size of the file at an absolute path
\* (NoFile: there is none); the file at VideoProbe has the size hSize
FileSize(p) ==
    CASE p = abspath(VideoA) -> 12288
      [] p = abspath(VideoB) -> 20000
      [] p = abspath(VideoTiny) -> 12287
      [] p = abspath(VideoEmpty) -> 0
      [] p = abspath(VideoProbe) -> hSize
      [] OTHER -> NoFile

(***************************************************************************)
(* Fingerprint: _compute_video_hash, lines 178-200.                        *)
(***************************************************************************)
\* fp.seek(pos, 0); fp.read(n) on a file of total_size bytes: the bytes
\* [from, to) of the file, fewer than n at the end of the file
Read(total_size, pos, n) ==
    [from |-> Min(pos, total_size), to |-> Min(pos + n, total_size)]

\* hashlib.md5(data).hexdigest(): a digest stands for the bytes it was computed from
Md5(data) == [md5 |-> data]

\* line 187 with the limit off by one
TooSmallOffByOne(total_size) == total_size < 8192 + 4096 - 1

\* line 187
TooSmall(total_size) == total_size < 8192 + 4096

\* lines 191-194 with the offsets in increasing order
SeekPositionsSorted(total_size) ==
    <<4096, total_size \div 3, (total_size \div 3) * 2, total_size - 8192>>

\* lines 191-194
SeekPositions(total_size) ==
    <<4096, (total_size \div 3) * 2, total_size \div 3, total_size - 8192>>

RECURSIVE Join(_, _)
\* sep.join(parts), as the sequence of its pieces
Join(sep, parts) ==
    IF Len(parts) = 0 THEN <<>>
    ELSE IF Len(parts) = 1 THEN <<parts[1]>>
    ELSE <<parts[1], sep>> \o Join(sep, Tail(parts))

\* _compute_video_hash on a file of the given size (NoFile: open() raises)
_compute_video_hash(size) ==
    IF size = NoFile
    THEN [raised |-> "FileNotFoundError", value |-> None, opened |-> FALSE, chunks |-> <<>>]
    ELSE IF TooSmall(size)
    THEN [raised |-> "InvalidFileError", value |-> None, opened |-> TRUE, chunks |-> <<>>]
    ELSE LET seek_positions == SeekPositions(size)
             chunks == [i \in 1..4 |-> Read(size, seek_positions[i], 4096)]
             hash_result == [i \in 1..4 |-> Md5(chunks[i])]
         IN  [raised |-> NoException, value |-> Join(";", hash_result),
              opened |-> TRUE, chunks |-> chunks]

(***************************************************************************)
(* The provider contract: BaseSubSearcher and ShooterSubSearcher.          *)
(***************************************************************************)
\* the extensions 'ass', 'srt', 'sub', 'SRT' and 'Ass', as their code points
ass == <<97, 115, 115>>
srt == <<115, 114, 116>>
sub == <<115, 117, 98>>
SRT == <<83, 82, 84>>
Ass == <<65, 115, 115>>

\* line 100
SUPPORT_LANGUAGES == <<"Chn", "Eng">>
\* line 101
SUPPORT_EXTS == <<ass, srt>>

\* lines 78-83: the exception _check_languages raises, or NoException
_check_languages(langs) ==
    IF \E i \in 1..Len(langs) : langs[i] \notin Range(SUPPORT_LANGUAGES)
    THEN "LanguageError" ELSE NoException

\* _check_exts with the membership test lost
_check_extsAcceptAll(es) == NoException

\* lines 85-90: the exception _check_exts raises, or NoException
_check_exts(es) ==
    IF \E i \in 1..Len(es) : es[i] \notin Range(SUPPORT_EXTS)
    THEN "ExtError" ELSE NoException

\* lines 115-118
NormLanguages(arg) ==
    IF arg = None THEN <<SUPPORT_LANGUAGES[1]>>
    ELSE IF arg.kind = "str" THEN <<arg.val>>
    ELSE arg.val

\* lines 121-124
NormExts(arg) ==
    IF arg = None THEN SUPPORT_EXTS
    ELSE IF arg.kind = "str" THEN <<arg.val>>
    ELSE arg.val

(***************************************************************************)
(* str.lower, line 152.  A string whose characters the code looks at is    *)
(* the sequence of its code points.  The tables are those of the Unicode   *)
(* 14.0 database of CPython 3.11: the simple lowercase mappings, and the   *)
(* Cased and Case_Ignorable properties that decide the final sigma.        *)
(***************************************************************************)
\* <<first, last, step, delta>>: the code points first, first + step, ..., last
\* have the lowercase code point + delta
LowerRanges ==
    {
     <<65, 90, 1, 32>>, <<192, 214, 1, 32>>, <<216, 222, 1, 32>>, <<256, 302, 2, 1>>,
     <<306, 310, 2, 1>>, <<313, 327, 2, 1>>, <<330, 374, 2, 1>>, <<376, 376, 1, -121>>,
     <<377, 381, 2, 1>>, <<385, 385, 1, 210>>, <<386, 388, 2, 1>>, <<390, 390, 1, 206>>,
     <<391, 391, 1, 1>>, <<393, 394, 1, 205>>, <<395, 395, 1, 1>>, <<398, 398, 1, 79>>,
     <<399, 399, 1, 202>>, <<400, 400, 1, 203>>, <<401, 401, 1, 1>>, <<403, 403, 1, 205>>,
     <<404, 404, 1, 207>>, <<406, 406, 1, 211>>, <<407, 407, 1, 209>>, <<408, 408, 1, 1>>,
     <<412, 412, 1, 211>>, <<413, 413, 1, 213>>, <<415, 415, 1, 214>>, <<416, 420, 2, 1>>,
     <<422, 422, 1, 218>>, <<423, 423, 1, 1>>, <<425, 425, 1, 218>>, <<428, 428, 1, 1>>,
     <<430, 430, 1, 218>>, <<431, 431, 1, 1>>, <<433, 434, 1, 217>>, <<435, 437, 2, 1>>,
     <<439, 439, 1, 219>>, <<440, 440, 1, 1>>, <<444, 444, 1, 1>>, <<452, 452, 1, 2>>,
     <<453, 453, 1, 1>>, <<455, 455, 1, 2>>, <<456, 456, 1, 1>>, <<458, 458, 1, 2>>,
     <<459, 475, 2, 1>>, <<478, 494, 2, 1>>, <<497, 497, 1, 2>>, <<498, 500, 2, 1>>,
     <<502, 502, 1, -97>>, <<503, 503, 1, -56>>, <<504, 542, 2, 1>>, <<544, 544, 1, -130>>,
     <<546, 562, 2, 1>>, <<570, 570, 1, 10795>>, <<571, 571, 1, 1>>, <<573, 573, 1, -163>>,
     <<574, 574, 1, 10792>>, <<577, 577, 1, 1>>, <<579, 579, 1, -195>>, <<580, 580, 1, 69>>,
     <<581, 581, 1, 71>>, <<582, 590, 2, 1>>, <<880, 882, 2, 1>>, <<886, 886, 1, 1>>,
     <<895, 895, 1, 116>>, <<902, 902, 1, 38>>, <<904, 906, 1, 37>>, <<908, 908, 1, 64>>,
     <<910, 911, 1, 63>>, <<913, 929, 1, 32>>, <<932, 939, 1, 32>>, <<975, 975, 1, 8>>,
     <<984, 1006, 2, 1>>, <<1012, 1012, 1, -60>>, <<1015, 1015, 1, 1>>, <<1017, 1017, 1, -7>>,
     <<1018, 1018, 1, 1>>, <<1021, 1023, 1, -130>>, <<1024, 1039, 1, 80>>, <<1040, 1071, 1, 32>>,
     <<1120, 1152, 2, 1>>, <<1162, 1214, 2, 1>>, <<1216, 1216, 1, 15>>, <<1217, 1229, 2, 1>>,
     <<1232, 1326, 2, 1>>, <<1329, 1366, 1, 48>>, <<4256, 4293, 1, 7264>>, <<4295, 4295, 1, 7264>>,
     <<4301, 4301, 1, 7264>>, <<5024, 5103, 1, 38864>>, <<5104, 5109, 1, 8>>, <<7312, 7354, 1, -3008>>,
     <<7357, 7359, 1, -3008>>, <<7680, 7828, 2, 1>>, <<7838, 7838, 1, -7615>>, <<7840, 7934, 2, 1>>,
     <<7944, 7951, 1, -8>>, <<7960, 7965, 1, -8>>, <<7976, 7983, 1, -8>>, <<7992, 7999, 1, -8>>,
     <<8008, 8013, 1, -8>>, <<8025, 8031, 2, -8>>, <<8040, 8047, 1, -8>>, <<8072, 8079, 1, -8>>,
     <<8088, 8095, 1, -8>>, <<8104, 8111, 1, -8>>, <<8120, 8121, 1, -8>>, <<8122, 8123, 1, -74>>,
     <<8124, 8124, 1, -9>>, <<8136, 8139, 1, -86>>, <<8140, 8140, 1, -9>>, <<8152, 8153, 1, -8>>,
     <<8154, 8155, 1, -100>>, <<8168, 8169, 1, -8>>, <<8170, 8171, 1, -112>>, <<8172, 8172, 1, -7>>,
     <<8184, 8185, 1, -128>>, <<8186, 8187, 1, -126>>, <<8188, 8188, 1, -9>>, <<8486, 8486, 1, -7517>>,
     <<8490, 8490, 1, -8383>>, <<8491, 8491, 1, -8262>>, <<8498, 8498, 1, 28>>, <<8544, 8559, 1, 16>>,
     <<8579, 8579, 1, 1>>, <<9398, 9423, 1, 26>>, <<11264, 11311, 1, 48>>, <<11360, 11360, 1, 1>>,
     <<11362, 11362, 1, -10743>>, <<11363, 11363, 1, -3814>>, <<11364, 11364, 1, -10727>>, <<11367, 11371, 2, 1>>,
     <<11373, 11373, 1, -10780>>, <<11374, 11374, 1, -10749>>, <<11375, 11375, 1, -10783>>, <<11376, 11376, 1, -10782>>,
     <<11378, 11378, 1, 1>>, <<11381, 11381, 1, 1>>, <<11390, 11391, 1, -10815>>, <<11392, 11490, 2, 1>>,
     <<11499, 11501, 2, 1>>, <<11506, 11506, 1, 1>>, <<42560, 42604, 2, 1>>, <<42624, 42650, 2, 1>>,
     <<42786, 42798, 2, 1>>, <<42802, 42862, 2, 1>>, <<42873, 42875, 2, 1>>, <<42877, 42877, 1, -35332>>,
     <<42878, 42886, 2, 1>>, <<42891, 42891, 1, 1>>, <<42893, 42893, 1, -42280>>, <<42896, 42898, 2, 1>>,
     <<42902, 42920, 2, 1>>, <<42922, 42922, 1, -42308>>, <<42923, 42923, 1, -42319>>, <<42924, 42924, 1, -42315>>,
     <<42925, 42925, 1, -42305>>, <<42926, 42926, 1, -42308>>, <<42928, 42928, 1, -42258>>, <<42929, 42929, 1, -42282>>,
     <<42930, 42930, 1, -42261>>, <<42931, 42931, 1, 928>>, <<42932, 42946, 2, 1>>, <<42948, 42948, 1, -48>>,
     <<42949, 42949, 1, -42307>>, <<42950, 42950, 1, -35384>>, <<42951, 42953, 2, 1>>, <<42960, 42960, 1, 1>>,
     <<42966, 42968, 2, 1>>, <<42997, 42997, 1, 1>>, <<65313, 65338, 1, 32>>, <<66560, 66599, 1, 40>>,
     <<66736, 66771, 1, 40>>, <<66928, 66964, 2, 39>>, <<66929, 66938, 1, 39>>, <<66941, 66954, 1, 39>>,
     <<66957, 66962, 1, 39>>, <<66965, 66965, 1, 39>>, <<68736, 68786, 1, 64>>, <<71840, 71871, 1, 32>>,
     <<93760, 93791, 1, 32>>, <<125184, 125217, 1, 34>>
    }

\* <<first, last>>: the code points with the property Cased
CasedRanges ==
    {
     <<65, 90>>, <<97, 122>>, <<170, 170>>, <<181, 181>>, <<186, 186>>, <<192, 214>>,
     <<216, 246>>, <<248, 442>>, <<444, 447>>, <<452, 659>>, <<661, 696>>, <<704, 705>>,
     <<736, 740>>, <<837, 837>>, <<880, 883>>, <<886, 887>>, <<890, 893>>, <<895, 895>>,
     <<902, 902>>, <<904, 906>>, <<908, 908>>, <<910, 929>>, <<931, 1013>>, <<1015, 1153>>,
     <<1162, 1327>>, <<1329, 1366>>, <<1376, 1416>>, <<4256, 4293>>, <<4295, 4295>>, <<4301, 4301>>,
     <<4304, 4346>>, <<4349, 4351>>, <<5024, 5109>>, <<5112, 5117>>, <<7296, 7304>>, <<7312, 7354>>,
     <<7357, 7359>>, <<7424, 7615>>, <<7680, 7957>>, <<7960, 7965>>, <<7968, 8005>>, <<8008, 8013>>,
     <<8016, 8023>>, <<8025, 8025>>, <<8027, 8027>>, <<8029, 8029>>, <<8031, 8061>>, <<8064, 8116>>,
     <<8118, 8124>>, <<8126, 8126>>, <<8130, 8132>>, <<8134, 8140>>, <<8144, 8147>>, <<8150, 8155>>,
     <<8160, 8172>>, <<8178, 8180>>, <<8182, 8188>>, <<8305, 8305>>, <<8319, 8319>>, <<8336, 8348>>,
     <<8450, 8450>>, <<8455, 8455>>, <<8458, 8467>>, <<8469, 8469>>, <<8473, 8477>>, <<8484, 8484>>,
     <<8486, 8486>>, <<8488, 8488>>, <<8490, 8493>>, <<8495, 8500>>, <<8505, 8505>>, <<8508, 8511>>,
     <<8517, 8521>>, <<8526, 8526>>, <<8544, 8575>>, <<8579, 8580>>, <<9398, 9449>>, <<11264, 11492>>,
     <<11499, 11502>>, <<11506, 11507>>, <<11520, 11557>>, <<11559, 11559>>, <<11565, 11565>>, <<42560, 42605>>,
     <<42624, 42653>>, <<42786, 42887>>, <<42891, 42894>>, <<42896, 42954>>, <<42960, 42961>>, <<42963, 42963>>,
     <<42965, 42969>>, <<42997, 42998>>, <<43000, 43002>>, <<43824, 43866>>, <<43868, 43880>>, <<43888, 43967>>,
     <<64256, 64262>>, <<64275, 64279>>, <<65313, 65338>>, <<65345, 65370>>, <<66560, 66639>>, <<66736, 66771>>,
     <<66776, 66811>>, <<66928, 66938>>, <<66940, 66954>>, <<66956, 66962>>, <<66964, 66965>>, <<66967, 66977>>,
     <<66979, 66993>>, <<66995, 67001>>, <<67003, 67004>>, <<67456, 67456>>, <<67459, 67461>>, <<67463, 67504>>,
     <<67506, 67514>>, <<68736, 68786>>, <<68800, 68850>>, <<71840, 71903>>, <<93760, 93823>>, <<119808, 119892>>,
     <<119894, 119964>>, <<119966, 119967>>, <<119970, 119970>>, <<119973, 119974>>, <<119977, 119980>>, <<119982, 119993>>,
     <<119995, 119995>>, <<119997, 120003>>, <<120005, 120069>>, <<120071, 120074>>, <<120077, 120084>>, <<120086, 120092>>,
     <<120094, 120121>>, <<120123, 120126>>, <<120128, 120132>>, <<120134, 120134>>, <<120138, 120144>>, <<120146, 120485>>,
     <<120488, 120512>>, <<120514, 120538>>, <<120540, 120570>>, <<120572, 120596>>, <<120598, 120628>>, <<120630, 120654>>,
     <<120656, 120686>>, <<120688, 120712>>, <<120714, 120744>>, <<120746, 120770>>, <<120772, 120779>>, <<122624, 122633>>,
     <<122635, 122654>>, <<125184, 125251>>, <<127280, 127305>>, <<127312, 127337>>, <<127344, 127369>>
    }

\* <<first, last>>: the code points with the property Case_Ignorable
CaseIgnorableRanges ==
    {
     <<39, 39>>, <<46, 46>>, <<58, 58>>, <<94, 94>>, <<96, 96>>, <<168, 168>>,
     <<173, 173>>, <<175, 175>>, <<180, 180>>, <<183, 184>>, <<688, 879>>, <<884, 885>>,
     <<890, 890>>, <<900, 901>>, <<903, 903>>, <<1155, 1161>>, <<1369, 1369>>, <<1375, 1375>>,
     <<1425, 1469>>, <<1471, 1471>>, <<1473, 1474>>, <<1476, 1477>>, <<1479, 1479>>, <<1524, 1524>>,
     <<1536, 1541>>, <<1552, 1562>>, <<1564, 1564>>, <<1600, 1600>>, <<1611, 1631>>, <<1648, 1648>>,
     <<1750, 1757>>, <<1759, 1768>>, <<1770, 1773>>, <<1807, 1807>>, <<1809, 1809>>, <<1840, 1866>>,
     <<1958, 1968>>, <<2027, 2037>>, <<2042, 2042>>, <<2045, 2045>>, <<2070, 2093>>, <<2137, 2139>>,
     <<2184, 2184>>, <<2192, 2193>>, <<2200, 2207>>, <<2249, 2306>>, <<2362, 2362>>, <<2364, 2364>>,
     <<2369, 2376>>, <<2381, 2381>>, <<2385, 2391>>, <<2402, 2403>>, <<2417, 2417>>, <<2433, 2433>>,
     <<2492, 2492>>, <<2497, 2500>>, <<2509, 2509>>, <<2530, 2531>>, <<2558, 2558>>, <<2561, 2562>>,
     <<2620, 2620>>, <<2625, 2626>>, <<2631, 2632>>, <<2635, 2637>>, <<2641, 2641>>, <<2672, 2673>>,
     <<2677, 2677>>, <<2689, 2690>>, <<2748, 2748>>, <<2753, 2757>>, <<2759, 2760>>, <<2765, 2765>>,
     <<2786, 2787>>, <<2810, 2815>>, <<2817, 2817>>, <<2876, 2876>>, <<2879, 2879>>, <<2881, 2884>>,
     <<2893, 2893>>, <<2901, 2902>>, <<2914, 2915>>, <<2946, 2946>>, <<3008, 3008>>, <<3021, 3021>>,
     <<3072, 3072>>, <<3076, 3076>>, <<3132, 3132>>, <<3134, 3136>>, <<3142, 3144>>, <<3146, 3149>>,
     <<3157, 3158>>, <<3170, 3171>>, <<3201, 3201>>, <<3260, 3260>>, <<3263, 3263>>, <<3270, 3270>>,
     <<3276, 3277>>, <<3298, 3299>>, <<3328, 3329>>, <<3387, 3388>>, <<3393, 3396>>, <<3405, 3405>>,
     <<3426, 3427>>, <<3457, 3457>>, <<3530, 3530>>, <<3538, 3540>>, <<3542, 3542>>, <<3633, 3633>>,
     <<3636, 3642>>, <<3654, 3662>>, <<3761, 3761>>, <<3764, 3772>>, <<3782, 3782>>, <<3784, 3789>>,
     <<3864, 3865>>, <<3893, 3893>>, <<3895, 3895>>, <<3897, 3897>>, <<3953, 3966>>, <<3968, 3972>>,
     <<3974, 3975>>, <<3981, 3991>>, <<3993, 4028>>, <<4038, 4038>>, <<4141, 4144>>, <<4146, 4151>>,
     <<4153, 4154>>, <<4157, 4158>>, <<4184, 4185>>, <<4190, 4192>>, <<4209, 4212>>, <<4226, 4226>>,
     <<4229, 4230>>, <<4237, 4237>>, <<4253, 4253>>, <<4348, 4348>>, <<4957, 4959>>, <<5906, 5908>>,
     <<5938, 5939>>, <<5970, 5971>>, <<6002, 6003>>, <<6068, 6069>>, <<6071, 6077>>, <<6086, 6086>>,
     <<6089, 6099>>, <<6103, 6103>>, <<6109, 6109>>, <<6155, 6159>>, <<6211, 6211>>, <<6277, 6278>>,
     <<6313, 6313>>, <<6432, 6434>>, <<6439, 6440>>, <<6450, 6450>>, <<6457, 6459>>, <<6679, 6680>>,
     <<6683, 6683>>, <<6742, 6742>>, <<6744, 6750>>, <<6752, 6752>>, <<6754, 6754>>, <<6757, 6764>>,
     <<6771, 6780>>, <<6783, 6783>>, <<6823, 6823>>, <<6832, 6862>>, <<6912, 6915>>, <<6964, 6964>>,
     <<6966, 6970>>, <<6972, 6972>>, <<6978, 6978>>, <<7019, 7027>>, <<7040, 7041>>, <<7074, 7077>>,
     <<7080, 7081>>, <<7083, 7085>>, <<7142, 7142>>, <<7144, 7145>>, <<7149, 7149>>, <<7151, 7153>>,
     <<7212, 7219>>, <<7222, 7223>>, <<7288, 7293>>, <<7376, 7378>>, <<7380, 7392>>, <<7394, 7400>>,
     <<7405, 7405>>, <<7412, 7412>>, <<7416, 7417>>, <<7468, 7530>>, <<7544, 7544>>, <<7579, 7679>>,
     <<8125, 8125>>, <<8127, 8129>>, <<8141, 8143>>, <<8157, 8159>>, <<8173, 8175>>, <<8189, 8190>>,
     <<8203, 8207>>, <<8216, 8217>>, <<8228, 8228>>, <<8231, 8231>>, <<8234, 8238>>, <<8288, 8292>>,
     <<8294, 8303>>, <<8305, 8305>>, <<8319, 8319>>, <<8336, 8348>>, <<8400, 8432>>, <<11388, 11389>>,
     <<11503, 11505>>, <<11631, 11631>>, <<11647, 11647>>, <<11744, 11775>>, <<11823, 11823>>, <<12293, 12293>>,
     <<12330, 12333>>, <<12337, 12341>>, <<12347, 12347>>, <<12441, 12446>>, <<12540, 12542>>, <<40981, 40981>>,
     <<42232, 42237>>, <<42508, 42508>>, <<42607, 42610>>, <<42612, 42621>>, <<42623, 42623>>, <<42652, 42655>>,
     <<42736, 42737>>, <<42752, 42785>>, <<42864, 42864>>, <<42888, 42890>>, <<42994, 42996>>, <<43000, 43001>>,
     <<43010, 43010>>, <<43014, 43014>>, <<43019, 43019>>, <<43045, 43046>>, <<43052, 43052>>, <<43204, 43205>>,
     <<43232, 43249>>, <<43263, 43263>>, <<43302, 43309>>, <<43335, 43345>>, <<43392, 43394>>, <<43443, 43443>>,
     <<43446, 43449>>, <<43452, 43453>>, <<43471, 43471>>, <<43493, 43494>>, <<43561, 43566>>, <<43569, 43570>>,
     <<43573, 43574>>, <<43587, 43587>>, <<43596, 43596>>, <<43632, 43632>>, <<43644, 43644>>, <<43696, 43696>>,
     <<43698, 43700>>, <<43703, 43704>>, <<43710, 43711>>, <<43713, 43713>>, <<43741, 43741>>, <<43756, 43757>>,
     <<43763, 43764>>, <<43766, 43766>>, <<43867, 43871>>, <<43881, 43883>>, <<44005, 44005>>, <<44008, 44008>>,
     <<44013, 44013>>, <<64286, 64286>>, <<64434, 64450>>, <<65024, 65039>>, <<65043, 65043>>, <<65056, 65071>>,
     <<65106, 65106>>, <<65109, 65109>>, <<65279, 65279>>, <<65287, 65287>>, <<65294, 65294>>, <<65306, 65306>>,
     <<65342, 65342>>, <<65344, 65344>>, <<65392, 65392>>, <<65438, 65439>>, <<65507, 65507>>, <<65529, 65531>>,
     <<66045, 66045>>, <<66272, 66272>>, <<66422, 66426>>, <<67456, 67461>>, <<67463, 67504>>, <<67506, 67514>>,
     <<68097, 68099>>, <<68101, 68102>>, <<68108, 68111>>, <<68152, 68154>>, <<68159, 68159>>, <<68325, 68326>>,
     <<68900, 68903>>, <<69291, 69292>>, <<69446, 69456>>, <<69506, 69509>>, <<69633, 69633>>, <<69688, 69702>>,
     <<69744, 69744>>, <<69747, 69748>>, <<69759, 69761>>, <<69811, 69814>>, <<69817, 69818>>, <<69821, 69821>>,
     <<69826, 69826>>, <<69837, 69837>>, <<69888, 69890>>, <<69927, 69931>>, <<69933, 69940>>, <<70003, 70003>>,
     <<70016, 70017>>, <<70070, 70078>>, <<70089, 70092>>, <<70095, 70095>>, <<70191, 70193>>, <<70196, 70196>>,
     <<70198, 70199>>, <<70206, 70206>>, <<70367, 70367>>, <<70371, 70378>>, <<70400, 70401>>, <<70459, 70460>>,
     <<70464, 70464>>, <<70502, 70508>>, <<70512, 70516>>, <<70712, 70719>>, <<70722, 70724>>, <<70726, 70726>>,
     <<70750, 70750>>, <<70835, 70840>>, <<70842, 70842>>, <<70847, 70848>>, <<70850, 70851>>, <<71090, 71093>>,
     <<71100, 71101>>, <<71103, 71104>>, <<71132, 71133>>, <<71219, 71226>>, <<71229, 71229>>, <<71231, 71232>>,
     <<71339, 71339>>, <<71341, 71341>>, <<71344, 71349>>, <<71351, 71351>>, <<71453, 71455>>, <<71458, 71461>>,
     <<71463, 71467>>, <<71727, 71735>>, <<71737, 71738>>, <<71995, 71996>>, <<71998, 71998>>, <<72003, 72003>>,
     <<72148, 72151>>, <<72154, 72155>>, <<72160, 72160>>, <<72193, 72202>>, <<72243, 72248>>, <<72251, 72254>>,
     <<72263, 72263>>, <<72273, 72278>>, <<72281, 72283>>, <<72330, 72342>>, <<72344, 72345>>, <<72752, 72758>>,
     <<72760, 72765>>, <<72767, 72767>>, <<72850, 72871>>, <<72874, 72880>>, <<72882, 72883>>, <<72885, 72886>>,
     <<73009, 73014>>, <<73018, 73018>>, <<73020, 73021>>, <<73023, 73029>>, <<73031, 73031>>, <<73104, 73105>>,
     <<73109, 73109>>, <<73111, 73111>>, <<73459, 73460>>, <<78896, 78904>>, <<92912, 92916>>, <<92976, 92982>>,
     <<92992, 92995>>, <<94031, 94031>>, <<94095, 94111>>, <<94176, 94177>>, <<94179, 94180>>, <<110576, 110579>>,
     <<110581, 110587>>, <<110589, 110590>>, <<113821, 113822>>, <<113824, 113827>>, <<118528, 118573>>, <<118576, 118598>>,
     <<119143, 119145>>, <<119155, 119170>>, <<119173, 119179>>, <<119210, 119213>>, <<119362, 119364>>, <<121344, 121398>>,
     <<121403, 121452>>, <<121461, 121461>>, <<121476, 121476>>, <<121499, 121503>>, <<121505, 121519>>, <<122880, 122886>>,
     <<122888, 122904>>, <<122907, 122913>>, <<122915, 122916>>, <<122918, 122922>>, <<123184, 123197>>, <<123566, 123566>>,
     <<123628, 123631>>, <<125136, 125142>>, <<125252, 125259>>, <<127995, 127999>>, <<917505, 917505>>, <<917536, 917631>>,
     <<917760, 917999>>
    }

Cased(c) == \E r \in CasedRanges : r[1] <= c /\ c <= r[2]
CaseIgnorable(c) == \E r \in CaseIgnorableRanges : r[1] <= c /\ c <= r[2]

\* the lowercase of one code point other than capital sigma: U+0130 gives two
\* code points, a code point of LowerRanges its mapping, any other itself
LowerChar(c) ==
    IF c = 304 THEN <<105, 775>>
    ELSE LET R == {r \in LowerRanges : r[1] <= c /\ c <= r[2] /\ (c - r[1]) % r[3] = 0}
         IN  IF R = {} THEN <<c>> ELSE <<c + (CHOOSE r \in R : TRUE)[4]>>

\* the capital sigma at s[i] is final: the nearest code point before it that
\* is not Case_Ignorable is Cased, and the nearest such after it, if any, is not
FinalSigma(s, i) ==
    LET before == {j \in 1..(i - 1) : ~CaseIgnorable(s[j])}
        after == {j \in (i + 1)..Len(s) : ~CaseIgnorable(s[j])}
    IN  /\ before # {}
        /\ Cased(s[CHOOSE j \in before : \A k \in before : k <= j])
        /\ \/ after = {}
           \/ ~Cased(s[CHOOSE j \in after : \A k \in after : j <= k])

\* the lowercase of the code point at s[i]
LowerAt(s, i) ==
    IF s[i] = 931 THEN <<IF FinalSigma(s, i) THEN 962 ELSE 963>>
    ELSE LowerChar(s[i])

RECURSIVE LowerFrom(_, _)
LowerFrom(s, i) == IF i > Len(s) THEN <<>> ELSE LowerAt(s, i) \o LowerFrom(s, i + 1)

\* the lowercase of an ASCII code point
LowerAscii(c) == IF 65 <= c /\ c <= 90 THEN c + 32 ELSE c

\* str.lower: a string of ASCII code points is lowered code point by code point
\* without the tables, as CPython does it; any other goes through them
Lower(s) ==
    IF \A i \in 1..Len(s) : s[i] < 128
    THEN [i \in 1..Len(s) |-> LowerAscii(s[i])]
    ELSE LowerFrom(s, 1)

\* lines 164-176: root/name.language.ext, the name being the video's without its suffix
_gen_subname(videofile, language, ext) ==
    LET sp == split(videofile)
        name == splitext(sp[2])[1]
    IN  [abs |-> sp[1].abs, dir |-> sp[1].dir,
         file |-> [stem |-> <<name, language>>, suffix |-> ext]]

(***************************************************************************)
(* The dict `result`: keys in insertion order; assigning to a key that is  *)
(* present replaces its value where it stands.                             *)
(***************************************************************************)
HasKey(d, k) == \E i \in 1..Len(d) : d[i].key = k

\* result[language] = value, line 139
DictSet(d, k, v) ==
    IF HasKey(d, k)
    THEN [i \in 1..Len(d) |-> IF d[i].key = k THEN [key |-> k, val |-> v] ELSE d[i]]
    ELSE Append(d, [key |-> k, val |-> v])

(***************************************************************************)
(* Normalisation of the responses, lines 143-162.                          *)
(***************************************************************************)
\* line 154 without the test of the requested formats
ShouldAppendAnyFormat(ext_, es, ext_set) == ext_ \notin ext_set

\* line 154 without the set of the formats already emitted
ShouldAppendNoDedup(ext_, es, ext_set) == ext_ \in Range(es)

\* line 154
ShouldAppend(ext_, es, ext_set) == ext_ \in Range(es) /\ ext_ \notin ext_set

RECURSIVE FilesLoop(_, _, _, _, _, _)
\* lines 150-161, from the j-th entry of `files` on; acc holds subinfos and ext_set
FilesLoop(files, j, language, es, videofile, acc) ==
    IF j > Len(files) THEN acc
    ELSE LET item == files[j]
             ext_ == Lower(item.Ext)
             link == item.Link
             next == IF ShouldAppend(ext_, es, acc.ext_set)
                     THEN [acc EXCEPT
                             !.subinfos = Append(@, [link |-> link,
                                                     language |-> language,
                                                     subname |-> _gen_subname(videofile, language, ext_),
                                                     ext |-> ext_]),
                             !.ext_set = @ \cup {ext_}]
                     ELSE acc
         IN  FilesLoop(files, j + 1, language, es, videofile, next)

\* lines 147-149 read the three keys of the item; a missing one raises KeyError
IsWellFormedItem(subinfo) == {"Desc", "Delay", "Files"} \subseteq DOMAIN subinfo

\* every item of the response has the three keys
IsWellFormed(json) == \A i \in 1..Len(json) : IsWellFormedItem(json[i])

RECURSIVE ItemsLoop(_, _, _, _, _, _)
\* lines 146-161, from the i-th item of `subinfolist` on; a missing key raises KeyError
ItemsLoop(subinfolist, i, language, es, videofile, acc) ==
    IF i > Len(subinfolist) THEN acc
    ELSE LET subinfo == subinfolist[i]
         IN  IF IsWellFormedItem(subinfo)
             THEN ItemsLoop(subinfolist, i + 1, language, es, videofile,
                            FilesLoop(subinfo.Files, 1, language, es, videofile, acc))
             ELSE [acc EXCEPT !.raised = "KeyError"]

RECURSIVE LanguagesLoop(_, _, _, _, _)
\* lines 144-161, from the r-th key of `result` on
LanguagesLoop(res, r, es, videofile, acc) ==
    IF r > Len(res) \/ acc.raised # NoException THEN acc
    ELSE LanguagesLoop(res, r + 1, es, videofile,
                       ItemsLoop(res[r].val, 1, res[r].key, es, videofile,
                                 [acc EXCEPT !.ext_set = {}]))

\* lines 143-162: the list search_subs returns, or the exception that leaves it
Normalize(res, es, videofile) ==
    LanguagesLoop(res, 1, es, videofile,
                  [subinfos |-> <<>>, ext_set |-> {}, raised |-> NoException])

(***************************************************************************)
(* The remote service.  A response is the decoded JSON: a list of items,   *)
(* each with Desc, Delay and Files, a list of {Ext, Link}.  The link of an *)
(* entry names the request, the item and the entry it came with, so that   *)
(* no two entries of a call share a link.                                  *)
(***************************************************************************)
LanguageTokens == {"Chn", "Eng", "Jpn"}
ResponseExts == {SRT, srt, Ass, sub}

RECURSIVE Shapes(_)
\* the lists of non-empty lists of extensions with at most n extensions in all
Shapes(n) ==
    IF n = 0 THEN {<<>>}
    ELSE {<<>>} \cup
         UNION {{<<f>> \o rest : rest \in Shapes(n - Len(f))} :
                    f \in SeqsUpTo(ResponseExts, n) \ {<<>>}}

RECURSIVE Sum(_)
Sum(s) == IF s = <<>> THEN 0 ELSE s[1] + Sum(Tail(s))

\* the shapes a response may take, by the number of entries the service has left
ShapesBy == [b \in 0..MaxEntries |-> Shapes(b)]

\* number of file entries of a response
Entries(json) ==
    Sum([i \in 1..Len(json) |->
            IF "Files" \in DOMAIN json[i] THEN Len(json[i].Files) ELSE 0])

\* the response of shape `shape` to the k-th request
Stamp(k, shape) ==
    [i \in 1..Len(shape) |->
        [Desc |-> "d", Delay |-> 0,
         Files |-> [j \in 1..Len(shape[i]) |-> [Ext |-> shape[i][j], Link |-> <<k, i, j>>]]]]

\* responses that decode, but whose item has no Files, or no Desc
Malformed == <<[Desc |-> "d", Delay |-> 0]>>
MalformedNoDesc == <<[Delay |-> 0, Files |-> <<>>]>>

\* what the k-th session.post / res.json() may do, the service having b entries left
Outcomes(k, b) ==
    {[kind |-> "transport_error"], [kind |-> "decode_error"],
     [kind |-> "json", json |-> Malformed], [kind |-> "json", json |-> MalformedNoDesc]}
    \cup {[kind |-> "json", json |-> Stamp(k, sh)] : sh \in ShapesBy[b]}

(***************************************************************************)
(* search_subs, lines 107-162.                                             *)
(***************************************************************************)
LanguageArgs ==
    {None} \cup {Str(t) : t \in LanguageTokens}
           \cup {List(s) : s \in SeqsUpTo(LanguageTokens, MaxLangs)}

ExtArgs ==
    {None, Str(srt), Str(sub), List(<<ass>>),
     List(<<srt, ass>>), List(<<ass, SRT>>)}

\* lines 129-132: the dict, as the object numbered obj
NewPayload(obj, filehash, basename) ==
    [id |-> obj, filehash |-> filehash, pathinfo |-> basename,
     format |-> "json", lang |-> ""]

\* line 136 left out: the dict goes out as it was built
IterPayloadStale(p, language, obj) == p

\* a dict of its own for each iteration
IterPayloadFresh(p, language, obj) == [p EXCEPT !.lang = language, !.id = obj]

\* line 136: payload['lang'] = language, on the dict built before the loop
IterPayload(p, language, obj) == [p EXCEPT !.lang = language]

\* lines 143-162 entered with the loop over; the call returns or raises
Finish(res, es, videofile) ==
    LET n == Normalize(res, es, videofile)
    IN  IF n.raised = NoException
        THEN /\ pc' = "returned"
             /\ ret' = n.subinfos
             /\ raised' = NoException
        ELSE /\ pc' = "raised"
             /\ ret' = None
             /\ raised' = n.raised

\* the call leaves with exception e before any request
RaiseEarly(e) ==
    /\ pc' = "raised"
    /\ raised' = e
    /\ UNCHANGED <<payload, nextObj, requests, result, idx, ret, budget, failedAt>>

\* lines 114-134, and lines 143-162 when there is no language to ask for
Start(videofile, langArg, extArg) ==
    /\ pc = "idle"
    /\ args' = [videofile |-> videofile, languages |-> langArg, exts |-> extArg]
    /\ LET vf == abspath(videofile)
           langs == NormLanguages(langArg)
           es == NormExts(extArg)
           h == _compute_video_hash(FileSize(vf))
           basename == split(vf)[2]
       IN  IF _check_languages(langs) # NoException
           THEN /\ languages' = langs
                /\ UNCHANGED <<exts, fileOpened, hashed>>
                /\ RaiseEarly(_check_languages(langs))
           ELSE IF _check_exts(es) # NoException
           THEN /\ languages' = langs
                /\ exts' = es
                /\ UNCHANGED <<fileOpened, hashed>>
                /\ RaiseEarly(_check_exts(es))
           ELSE /\ languages' = langs
                /\ exts' = es
                /\ fileOpened' = h.opened
                /\ hashed' = h.chunks
                /\ IF h.raised # NoException
                   THEN RaiseEarly(h.raised)
                   ELSE /\ payload' = NewPayload(nextObj + 1, h.value, basename)
                        /\ nextObj' = nextObj + 1
                        /\ result' = <<>>
                        /\ UNCHANGED <<requests, idx, budget, failedAt>>
                        /\ IF Len(langs) = 0
                           THEN Finish(<<>>, es, vf)
                           ELSE /\ pc' = "query"
                                /\ UNCHANGED <<raised, ret>>
    /\ UNCHANGED <<hashVars, regVars>>

\* lines 140-141 replaced by `continue`: a failed request is skipped
PostStepSwallow(outcome) ==
    LET language == languages[idx + 1]
        p == IterPayload(payload, language, nextObj + 1)
    IN  /\ payload' = p
        /\ nextObj' = IF p.id > nextObj THEN p.id ELSE nextObj
        /\ requests' = Append(requests, p)
        /\ idx' = idx + 1
        /\ UNCHANGED <<args, languages, exts, fileOpened, hashed, hashVars, regVars>>
        /\ LET res == IF outcome.kind = "json"
                      THEN DictSet(result, language, outcome.json) ELSE result
           IN  /\ result' = res
               /\ failedAt' = IF outcome.kind = "json" \/ failedAt # 0
                              THEN failedAt ELSE idx + 1
               /\ budget' = IF outcome.kind = "json"
                            THEN budget - Entries(outcome.json) ELSE budget
               /\ IF idx + 1 = Len(languages)
                  THEN Finish(res, exts, abspath(args.videofile))
                  ELSE /\ pc' = "query"
                       /\ UNCHANGED <<raised, ret>>

\* one iteration of the loop of lines 135-141, and lines 143-162 after the last
PostStep(outcome) ==
    LET language == languages[idx + 1]
        p == IterPayload(payload, language, nextObj + 1)
    IN  /\ payload' = p
        /\ nextObj' = IF p.id > nextObj THEN p.id ELSE nextObj
        /\ requests' = Append(requests, p)
        /\ UNCHANGED <<args, languages, exts, fileOpened, hashed, hashVars, regVars>>
        /\ IF outcome.kind # "json"
           THEN /\ pc' = "raised"
                /\ raised' = "SearchingSubinfoError"
                /\ failedAt' = idx + 1
                /\ UNCHANGED <<result, idx, ret, budget>>
           ELSE LET res == DictSet(result, language, outcome.json)
                IN  /\ result' = res
                    /\ idx' = idx + 1
                    /\ budget' = budget - Entries(outcome.json)
                    /\ UNCHANGED failedAt
                    /\ IF idx + 1 = Len(languages)
                       THEN Finish(res, exts, abspath(args.videofile))
                       ELSE /\ pc' = "query"
                            /\ UNCHANGED <<raised, ret>>

SearchSubs ==
    \E videofile \in Videos, langArg \in LanguageArgs, extArg \in ExtArgs :
        Start(videofile, langArg, extArg)

\* search_subs on the file whose size varies
SearchProbe ==
    \E langArg \in LanguageArgs, extArg \in ExtArgs : Start(VideoProbe, langArg, extArg)

Post ==
    /\ pc = "query"
    /\ \E outcome \in Outcomes(idx + 1, budget) : PostStep(outcome)

InitSearch ==
    /\ pc = "idle"
    /\ args = None
    /\ languages = None
    /\ exts = None
    /\ payload = None
    /\ nextObj = 0
    /\ requests = <<>>
    /\ result = <<>>
    /\ idx = 0
    /\ raised = NoException
    /\ ret = None
    /\ fileOpened = FALSE
    /\ hashed = <<>>
    /\ budget = MaxEntries
    /\ failedAt = 0

(***************************************************************************)
(* The fingerprint of one file.                                            *)
(***************************************************************************)
\* the sizes around the limit of line 187, and a few others
HashSizes ==
    {NoFile, 0, 4096, 8192, 20000, 30001, 1048576}
    \cup ((8192 + 4096 - SizeSpan)..(8192 + 4096 + SizeSpan))

\* ShooterSubSearcher._compute_video_hash(videofile), lines 178-200
ComputeVideoHash ==
    /\ hOut = None
    /\ hOut' = _compute_video_hash(hSize)
    /\ UNCHANGED <<hSize, searchVars, regVars>>

InitHash == hSize \in HashSizes /\ hOut = None
InitHashIdle == hSize = NoFile /\ hOut = None

(***************************************************************************)
(* The registry, lines 9-33, and the classes it is given.                  *)
(***************************************************************************)
NoneObj == "None"
Classes == {"object", "BaseSubSearcher", "ShooterSubSearcher", "OtherSubSearcher", "Plain"}
\* what a caller may hand to the registry: three classes and an object that is no class
Objects == {"ShooterSubSearcher", "OtherSubSearcher", "Plain", "instance"}
RegNames == {"default", "ShooterSubSearcher", "mine"}
Fallbacks == {NoneObj, "OtherSubSearcher"}

\* the base class of a class (lines 36, 94)
Parent(c) ==
    CASE c = "ShooterSubSearcher" -> "BaseSubSearcher"
      [] c = "OtherSubSearcher" -> "BaseSubSearcher"
      [] OTHER -> "object"

RECURSIVE Inherits(_, _)
Inherits(c, base) ==
    IF c = base THEN TRUE
    ELSE IF c = "object" THEN FALSE
    ELSE Inherits(Parent(c), base)

\* issubclass(c, base): TypeError when c is not a class
issubclass(c, base) ==
    IF c \notin Classes THEN [raised |-> "TypeError", value |-> FALSE]
    ELSE [raised |-> NoException, value |-> Inherits(c, base)]

\* registered_subsearchers[name] = cls
SetItem(reg, name, cls) ==
    [n \in DOMAIN reg \cup {name} |-> IF n = name THEN cls ELSE reg[n]]

\* line 18 as setdefault: a name already bound keeps its searcher
register_subsearcherKeepFirst(reg, name, subsearcher_cls) ==
    LET t == issubclass(subsearcher_cls, "BaseSubSearcher")
    IN  IF t.raised # NoException THEN [raised |-> t.raised, reg |-> reg]
        ELSE IF ~t.value THEN [raised |-> "ValueError", reg |-> reg]
        ELSE [raised |-> NoException,
              reg |-> IF name \in DOMAIN reg THEN reg ELSE SetItem(reg, name, subsearcher_cls)]

\* line 18 moved before the test of line 16
register_subsearcherWriteFirst(reg, name, subsearcher_cls) ==
    LET t == issubclass(subsearcher_cls, "BaseSubSearcher")
        written == SetItem(reg, name, subsearcher_cls)
    IN  IF t.raised # NoException THEN [raised |-> t.raised, reg |-> written]
        ELSE IF ~t.value THEN [raised |-> "ValueError", reg |-> written]
        ELSE [raised |-> NoException, reg |-> written]

\* lines 12-18: the exception raised, and the registry the call leaves
register_subsearcher(reg, name, subsearcher_cls) ==
    LET t == issubclass(subsearcher_cls, "BaseSubSearcher")
    IN  IF t.raised # NoException THEN [raised |-> t.raised, reg |-> reg]
        ELSE IF ~t.value THEN [raised |-> "ValueError", reg |-> reg]
        ELSE [raised |-> NoException, reg |-> SetItem(reg, name, subsearcher_cls)]

\* lines 21-22: registered_subsearchers.get(name, default)
get_subsearcher(reg, name, default) ==
    IF name \in DOMAIN reg THEN reg[name] ELSE default

\* lines 25-33, the decorator applied to subsearcher_cls: the name it registers
\* under (NoneObj when reading __name__ raises), then register_subsearcher
DecoratorName(subsearcher_cls, name) ==
    IF name = NoneObj
    THEN IF subsearcher_cls \in Classes THEN subsearcher_cls ELSE NoneObj
    ELSE name

\* the registry once the module is loaded: lines 92-94, innermost decorator first
RegistryAtLoad ==
    LET first == register_subsearcher(<<>>, DecoratorName("ShooterSubSearcher", "default"),
                                      "ShooterSubSearcher").reg
    IN  register_subsearcher(first, DecoratorName("ShooterSubSearcher", NoneObj),
                             "ShooterSubSearcher").reg

LogAtLoad ==
    <<[name |-> "default", cls |-> "ShooterSubSearcher", ok |-> TRUE],
      [name |-> "ShooterSubSearcher", cls |-> "ShooterSubSearcher", ok |-> TRUE]>>

\* a call of register_subsearcher(name, cls), made directly or by the decorator
DoRegister(op, name, cls) ==
    LET r == register_subsearcher(registered_subsearchers, name, cls)
    IN  /\ registered_subsearchers' = r.reg
        /\ regLog' = Append(regLog, [name |-> name, cls |-> cls, ok |-> r.raised = NoException])
        /\ regOut' = [op |-> op, name |-> name, arg |-> cls, raised |-> r.raised,
                      ret |-> IF op = "register" /\ r.raised = NoException THEN cls ELSE NoneObj,
                      before |-> registered_subsearchers]

RegisterSubsearcher ==
    /\ Len(regLog) < Len(LogAtLoad) + MaxRegs
    /\ \E name \in RegNames, cls \in Objects : DoRegister("register_subsearcher", name, cls)
    /\ UNCHANGED <<searchVars, hashVars>>

\* register(subsearcher_cls, name) and register(name=name)(subsearcher_cls)
Register ==
    /\ Len(regLog) < Len(LogAtLoad) + MaxRegs
    /\ \E name \in RegNames \cup {NoneObj}, cls \in Objects :
          IF name = NoneObj /\ cls \notin Classes
          THEN /\ regOut' = [op |-> "register", name |-> name, arg |-> cls,
                             raised |-> "AttributeError", ret |-> NoneObj,
                             before |-> registered_subsearchers]
               /\ UNCHANGED <<registered_subsearchers, regLog>>
          ELSE DoRegister("register", DecoratorName(cls, name), cls)
    /\ UNCHANGED <<searchVars, hashVars>>

GetSubsearcher ==
    /\ \E name \in RegNames \cup {"OtherSubSearcher"}, default \in Fallbacks :
          regOut' = [op |-> "get_subsearcher", name |-> name, arg |-> default,
                     raised |-> NoException,
                     ret |-> get_subsearcher(registered_subsearchers, name, default),
                     before |-> registered_subsearchers]
    /\ UNCHANGED <<registered_subsearchers, regLog, searchVars, hashVars>>

NoCall == [op |-> "none", name |-> NoneObj, arg |-> NoneObj, raised |-> NoException,
           ret |-> NoneObj, before |-> RegistryAtLoad]

InitRegistry ==
    /\ registered_subsearchers = RegistryAtLoad
    /\ regLog = LogAtLoad
    /\ regOut = NoCall

(***************************************************************************)
(* The specifications.                                                     *)
(***************************************************************************)
Init == InitSearch /\ InitHashIdle /\ InitRegistry
Next == SearchSubs \/ Post
Spec == Init /\ [][Next]_vars

InitH == InitSearch /\ InitHash /\ InitRegistry
NextHash == ComputeVideoHash
SpecHash == InitH /\ [][NextHash]_vars

NextGuard == SearchProbe
SpecGuard == InitH /\ [][NextGuard]_vars

InitR == InitSearch /\ InitHashIdle /\ InitRegistry
NextRegistry == RegisterSubsearcher \/ Register \/ GetSubsearcher
SpecRegistry == InitR /\ [][NextRegistry]_vars

(***************************************************************************)
(* Properties of search_subs.                                              *)
(***************************************************************************)
RequestedLanguages == NormLanguages(args.languages)
RequestedExts == NormExts(args.exts)
HasUnsupportedLanguage ==
    \E i \in 1..Len(RequestedLanguages) : RequestedLanguages[i] \notin Range(SUPPORT_LANGUAGES)
HasUnsupportedExt ==
    \E i \in 1..Len(RequestedExts) : RequestedExts[i] \notin Range(SUPPORT_EXTS)

\* the call has failed with e: nothing was requested, the file was not opened
\* or read, and nothing is returned
FailedBeforeIO(e) ==
    /\ pc = "raised"
    /\ raised = e
    /\ requests = <<>>
    /\ ~fileOpened
    /\ hashed = <<>>
    /\ ret = None

\* C1 as stated: a call with an unsupported language fails with LanguageError
\* and a call with an unsupported format fails with ExtError, in both cases
\* before any request and before the video file is opened.
Orig_C1 ==
    pc # "idle" =>
        /\ HasUnsupportedLanguage => FailedBeforeIO("LanguageError")
        /\ HasUnsupportedExt => FailedBeforeIO("ExtError")

\* C1 amended: a call with an unsupported language fails with LanguageError; a
\* call whose languages are all supported and that has an unsupported format
\* fails with ExtError; in both cases no request has been issued, the video
\* file has not been opened or read, and nothing is returned.
Thm_C1 ==
    pc # "idle" =>
        /\ HasUnsupportedLanguage => FailedBeforeIO("LanguageError")
        /\ (~HasUnsupportedLanguage /\ HasUnsupportedExt) => FailedBeforeIO("ExtError")

Witness_C1 ==
    /\ pc = "raised"
    /\ raised = "ExtError"
    /\ HasUnsupportedExt
    /\ FileSize(abspath(args.videofile)) >= 8192 + 4096

\* some file entry of the response has the extension fmt, in any case
HasEntry(json, fmt) ==
    \E i \in 1..Len(json) : \E j \in 1..Len(json[i].Files) : Lower(json[i].Files[j].Ext) = fmt

\* C2: every descriptor a successful call returns has a requested language and
\* a requested format, so a supported language and a supported format.
Thm_C2 ==
    pc = "returned" =>
        \A i \in 1..Len(ret) :
            /\ ret[i].language \in Range(RequestedLanguages)
            /\ ret[i].ext \in Range(RequestedExts)
            /\ ret[i].language \in Range(SUPPORT_LANGUAGES)
            /\ ret[i].ext \in Range(SUPPORT_EXTS)

Witness_C2 ==
    /\ pc = "returned"
    /\ RequestedExts = <<ass>>
    /\ Len(result) = 1
    /\ HasEntry(result[1].val, ass)
    /\ HasEntry(result[1].val, srt)
    /\ Len(ret) = 1

\* the response kept for a language
Kept(language) == (CHOOSE r \in Range(result) : r.key = language).val

\* the link of the first entry of the response, items in order and then the
\* entries of an item in order, whose lowercased extension is fmt
FirstLink(json, fmt) ==
    LET P == {q \in UNION {{<<i, j>> : j \in 1..Len(json[i].Files)} : i \in 1..Len(json)} :
                 Lower(json[q[1]].Files[q[2]].Ext) = fmt}
        p == CHOOSE q \in P :
                 \A o \in P : q[1] < o[1] \/ (q[1] = o[1] /\ q[2] <= o[2])
    IN  json[p[1]].Files[p[2]].Link

\* C3: the returned list has at most one descriptor per (language, format),
\* and its link is that of the first entry with that format, in response
\* order, of the response kept for the language.
Thm_C3 ==
    pc = "returned" =>
        /\ \A i, j \in 1..Len(ret) :
              (ret[i].language = ret[j].language /\ ret[i].ext = ret[j].ext) => i = j
        /\ \A i \in 1..Len(ret) :
              /\ HasKey(result, ret[i].language)
              /\ HasEntry(Kept(ret[i].language), ret[i].ext)
              /\ ret[i].link = FirstLink(Kept(ret[i].language), ret[i].ext)

Witness_C3 ==
    /\ pc = "returned"
    /\ Len(languages) = 2
    /\ languages[1] = languages[2]
    /\ Len(ret) = 1
    /\ \E i1, i2 \in 1..Len(result[1].val) :
          \E j1 \in 1..Len(result[1].val[i1].Files) :
             \E j2 \in 1..Len(result[1].val[i2].Files) :
                /\ <<i1, j1>> # <<i2, j2>>
                /\ Lower(result[1].val[i1].Files[j1].Ext) = ret[1].ext
                /\ Lower(result[1].val[i2].Files[j2].Ext) = ret[1].ext

\* C4: when the k-th request or its decoding fails, the call fails with
\* SearchingSubinfoError, returns nothing, and has issued exactly k requests.
Thm_C4 ==
    failedAt # 0 =>
        /\ pc = "raised"
        /\ raised = "SearchingSubinfoError"
        /\ ret = None
        /\ Len(requests) = failedAt

Witness_C4 ==
    /\ failedAt = 2
    /\ Len(result) = 1
    /\ IsWellFormed(result[1].val)
    /\ HasEntry(result[1].val, srt)
    /\ pc = "raised"

\* C9: requests go out one at a time, one per requested language and in the
\* order of the list; the i-th carries the i-th language, the fingerprint, the
\* base name of the video and 'json'; nothing is returned before the last.
Thm_C9 ==
    pc # "idle" =>
        /\ Len(requests) <= Len(RequestedLanguages)
        /\ \A i \in 1..Len(requests) :
              /\ requests[i].lang = RequestedLanguages[i]
              /\ requests[i].filehash =
                     _compute_video_hash(FileSize(abspath(args.videofile))).value
              /\ requests[i].pathinfo = abspath(args.videofile).file
              /\ requests[i].format = "json"
        /\ pc = "query" => (Len(requests) = idx /\ idx < Len(RequestedLanguages))
        /\ pc = "returned" => (Len(requests) = Len(RequestedLanguages) /\ idx = Len(requests))

Witness_C9 ==
    /\ pc = "returned"
    /\ Len(requests) = 2
    /\ requests[1].lang # requests[2].lang
    /\ Len(ret) = 2

\* C10 as stated: every iteration of the language loop uses a payload object
\* of its own.
Orig_C10 ==
    \A i, j \in 1..Len(requests) : i # j => requests[i].id # requests[j].id

\* C10 amended: one payload object is built before the loop and every request
\* of the call is made with it; an iteration overwrites only its lang field,
\* with the language of that iteration, and leaves the other fields alone.
Thm_C10 ==
    requests # <<>> =>
        /\ nextObj = 1
        /\ payload = requests[Len(requests)]
        /\ \A i \in 1..Len(requests) :
              /\ requests[i].id = 1
              /\ requests[i].lang = languages[i]
              /\ [requests[i] EXCEPT !.lang = ""] = [requests[1] EXCEPT !.lang = ""]

Witness_C10 ==
    /\ Len(requests) = 2
    /\ requests[1].lang # requests[2].lang
    /\ requests[1].id = requests[2].id

(***************************************************************************)
(* Properties of the fingerprint.                                          *)
(***************************************************************************)
\* the digests of the 4096-byte windows starting at the offsets, joined by ';'
DigestsAt(offsets) ==
    Join(";", [i \in 1..Len(offsets) |-> Md5([from |-> offsets[i], to |-> offsets[i] + 4096])])

\* C6 as stated: for T >= 12288 the windows start at 4096, floor(2T/3),
\* floor(T/3) and T - 8192, and the digests are joined in that order.
Orig_C6 ==
    (hOut # None /\ hSize >= 12288) =>
        /\ hOut.raised = NoException
        /\ hOut.value = DigestsAt(<<4096, (2 * hSize) \div 3, hSize \div 3, hSize - 8192>>)

\* C6 amended: for T >= 12288 the windows start at 4096, 2 * floor(T/3),
\* floor(T/3) and T - 8192, and the digests are joined in that order.
Thm_C6 ==
    (hOut # None /\ hSize >= 12288) =>
        /\ hOut.raised = NoException
        /\ hOut.value = DigestsAt(<<4096, 2 * (hSize \div 3), hSize \div 3, hSize - 8192>>)

Witness_C6 ==
    /\ hOut # None
    /\ hSize >= 12288
    /\ hSize % 3 = 2
    /\ hOut.raised = NoException

\* C7: a call that passes validation on a file of T < 12288 bytes fails with
\* InvalidFileError, no window hashed and no request issued; on a file of
\* T >= 12288 bytes the fingerprint is made of exactly four digests.
Thm_C7 ==
    (pc # "idle" /\ ~HasUnsupportedLanguage /\ ~HasUnsupportedExt /\ hSize # NoFile) =>
        IF hSize < 12288
        THEN /\ pc = "raised"
             /\ raised = "InvalidFileError"
             /\ hashed = <<>>
             /\ requests = <<>>
             /\ ret = None
        ELSE /\ raised = NoException
             /\ Len(hashed) = 4
             /\ Len(payload.filehash) = 7
             /\ \A i \in 1..4 : payload.filehash[2 * i - 1] = Md5(hashed[i])
             /\ \A i \in 1..3 : payload.filehash[2 * i] = ";"

Witness_C7 ==
    /\ pc = "raised"
    /\ raised = "InvalidFileError"
    /\ hSize = 12287

(***************************************************************************)
(* Properties of the registry.                                             *)
(***************************************************************************)
\* the class of the latest register_subsearcher call under the name that
\* returned, or the fallback when there is none
LastRegistered(log, name, fallback) ==
    LET S == {i \in 1..Len(log) : log[i].name = name /\ log[i].ok}
    IN  IF S = {} THEN fallback
        ELSE log[CHOOSE i \in S : \A k \in S : k <= i].cls

\* C5: get_subsearcher(name, fallback) gives the class of the latest
\* successful registration under the name, or the fallback; it does not raise
\* and leaves the registry as it was.
Thm_C5 ==
    /\ \A name \in RegNames \cup Classes, fallback \in Fallbacks :
          get_subsearcher(registered_subsearchers, name, fallback)
              = LastRegistered(regLog, name, fallback)
    /\ regOut.op = "get_subsearcher" =>
          /\ regOut.raised = NoException
          /\ regOut.ret = LastRegistered(regLog, regOut.name, regOut.arg)
          /\ registered_subsearchers = regOut.before

Witness_C5 ==
    /\ regOut.op = "get_subsearcher"
    /\ regOut.name = "default"
    /\ regOut.arg = NoneObj
    /\ regOut.ret = "OtherSubSearcher"

\* C8: registering a class that is not a subclass of BaseSubSearcher fails
\* with ValueError, and a registration that fails leaves the registry as it was.
Thm_C8 ==
    regOut.op \in {"register_subsearcher", "register"} =>
        /\ (regOut.arg \in Classes /\ ~Inherits(regOut.arg, "BaseSubSearcher")) =>
              (regOut.raised = "ValueError" /\ registered_subsearchers = regOut.before)
        /\ regOut.raised # NoException => registered_subsearchers = regOut.before

Witness_C8 ==
    /\ regOut.op = "register_subsearcher"
    /\ regOut.arg = "Plain"
    /\ regOut.name = "default"
    /\ regOut.raised = "ValueError"

====
